---- MODULE Spec2Model ----
(***************************************************************************)
(* A model of the pagination cursor, the request pipeline and the search   *)
(* builders of tmdb-cli (src/libs/handlers).                               *)
(*                                                                         *)
(* Every method of Cursor and of the search builders takes `self` by       *)
(* value: the caller's variable is moved into the call, and the caller     *)
(* gets a cursor back only inside Ok(..).  cursors[s] is what the caller   *)
(* holds in variable s; NoCursor is a moved-out (or never bound) variable. *)
(***************************************************************************)
EXTENDS Integers, Sequences, FiniteSets

VARIABLES
    tmdb,            \* the Client the program built: its movies and tv handlers
    cursors,         \* caller's cursor variables: slot -> Cursor value or NoCursor
    search,          \* caller's search builder (MovieSearch / ShowSearch) or NoSearch
    sent,            \* number of requests handed to reqwest::Client::execute
    last,            \* the call that completed most recently: what it sent and returned
    advances,        \* slot -> successful next_page() calls since construction, Broken after any other call
    overflowChecks,  \* build profile: is `+=` on u64 compiled with overflow checks
    clients          \* number of reqwest clients built so far (runs of client!())

vars == <<tmdb, cursors, search, sent, last, advances, overflowChecks, clients>>

----------------------------------------------------------------------------
(* Bounds *)

\* width, in bits, of the modelled u64 (stands for 64)
U64Bits == 3
\* number of requests a behaviour may issue
MaxSent == 3
\* longest params list a caller builds with param / params
MaxParams == 2
\* number of reqwest clients a behaviour may build
MaxClients == 4

\* u64::MAX
U64Max == 2^U64Bits - 1

Slots == {1, 2}

----------------------------------------------------------------------------
(* Values *)

Host == "https://api.themoviedb.org"
Token == "TMDB_TOKEN"

NoCursor == [moved |-> TRUE]
NoSearch == [nosearch |-> TRUE]
NoRequest == [norequest |-> TRUE]
NoEnvelope == [noenvelope |-> TRUE]
DecodeError == [decode_error |-> TRUE]
Broken == -1

\* Option<String>
None == [some |-> FALSE]
Some(v) == [some |-> TRUE, val |-> v]

\* arguments callers pass
PageArgs == {0, 1, 2, U64Max}
ParamPairs == {<<"api_key", "other">>, <<"page", "9">>}
ParamLists == {<<p>> : p \in ParamPairs} \cup {<<p, q>> : p \in ParamPairs, q \in ParamPairs}
\* arguments of the callers of two cursors
PairPageArgs == {U64Max}
PairParamPairs == {<<"page", "9">>}
Ids == {157336}
Queries == {"13 Hours"}
Years == {2016}
Regions == {"US"}
Languages == {"en-us"}

\* response bodies the server may send: JSON objects as records of their members
Bodies ==
    { [page |-> 1, results |-> <<"m1", "m2">>, total_pages |-> 2, total_results |-> 3],
      [extra |-> "x", page |-> 5, results |-> <<"m3">>, total_pages |-> 7, total_results |-> 9],
      [page |-> 1, results |-> <<"m1">>, total_pages |-> 2],
      [page |-> -1, results |-> <<"m3">>, total_pages |-> 7, total_results |-> 9],
      [raw |-> "<html>"] }
Statuses == {200, 300, 404}
\* what the network gives back for one request
Outcomes ==
    {[net |-> "error"]} \cup
    {[body |-> b, net |-> "response", status |-> st] : st \in Statuses, b \in Bodies}

\* the outcomes the interleaved fetches of two cursors are given: no
\* answer, or a page (one of two)
PairOutcomes ==
    {o \in Outcomes : \/ o.net = "error"
                      \/ o.status = 200 /\ "total_results" \in DOMAIN o.body /\ o.body.page >= 0}

Failures == {"transport", "status", "decode"}

\* the members of the single objects: those a body must have, and those
\* that may be absent (Option, or #[serde(default)])
MovieDetailsRequired ==
    {"adult", "budget", "genres", "id", "original_language", "original_title", "popularity",
     "production_companies", "production_countries", "release_date", "revenue",
     "spoken_languages", "status", "title", "video", "vote_average", "vote_count"}
MovieDetailsOptional ==
    {"backdrop_path", "belongs_to_collection", "homepage", "imdb_id", "overview",
     "poster_path", "runtime", "tagline"}
ShowDetailsRequired ==
    {"created_by", "episode_run_time", "first_air_date", "genres", "homepage", "id",
     "in_production", "languages", "last_air_date", "last_episode_to_air", "name", "networks",
     "number_of_episodes", "number_of_seasons", "origin_country", "original_language",
     "original_name", "overview", "popularity", "production_companies",
     "production_countries", "seasons", "spoken_languages", "status", "tagline", "type",
     "vote_average", "vote_count"}
ShowDetailsOptional == {"backdrop_path", "next_episode_to_air", "poster_path"}
CreditsRequired == {"id"}
CreditsOptional == {"cast", "crew"}

\* bodies the server may send for a single object (member values abstracted)
ObjectBodies ==
    { [k \in MovieDetailsRequired |-> "v"],
      [k \in ShowDetailsRequired \cup {"poster_path"} |-> "v"],
      [k \in {"id", "cast", "crew"} |-> "v"],
      [k \in {"id"} |-> "v"],
      [raw |-> "<html>"] }
ObjectOutcomes ==
    {[net |-> "error"]} \cup
    {[body |-> b, net |-> "response", status |-> st] : st \in Statuses, b \in ObjectBodies}

----------------------------------------------------------------------------
(* Conversions *)

Digit(d) ==
    CASE d = 0 -> "0" [] d = 1 -> "1" [] d = 2 -> "2" [] d = 3 -> "3" [] d = 4 -> "4"
      [] d = 5 -> "5" [] d = 6 -> "6" [] d = 7 -> "7" [] d = 8 -> "8" [] d = 9 -> "9"

\* u64::to_string and the urlencoded serialisation of a u64: decimal digits
RECURSIVE to_string(_)
to_string(n) == IF n < 10 THEN Digit(n) ELSE to_string(n \div 10) \o Digit(n % 10)

\* Display of an i64, as format! writes an id into a url
i64_to_string(n) == IF n < 0 THEN "-" \o to_string(0 - n) ELSE to_string(n)

\* bool::to_string
bool_to_string(b) == IF b THEN "true" ELSE "false"

\* serde's decoding of a body as CursorPage<T>: every member must be present,
\* page must fit u64, members the struct does not name are ignored
CursorPage(body) ==
    IF /\ {"page", "results", "total_pages", "total_results"} \subseteq DOMAIN body
       /\ body.page >= 0
    THEN [page |-> body.page, results |-> body.results,
          total_pages |-> body.total_pages, total_results |-> body.total_results]
    ELSE DecodeError

\* serde's decoding of a body as a struct: every required member must be
\* present, an absent optional one takes its default, others are ignored
Json(required, optional, body) ==
    IF required \subseteq DOMAIN body
    THEN [k \in required \cup optional |-> IF k \in DOMAIN body THEN body[k] ELSE "default"]
    ELSE DecodeError

MovieDetails(body) == Json(MovieDetailsRequired, MovieDetailsOptional, body)
ShowDetails(body) == Json(ShowDetailsRequired, ShowDetailsOptional, body)
Credits(body) == Json(CreditsRequired, CreditsOptional, body)

\* Response::json::<T>()
json(T, body) ==
    CASE T = "MovieDetails" -> MovieDetails(body)
      [] T = "ShowDetails" -> ShowDetails(body)
      [] T = "Credits" -> Credits(body)

----------------------------------------------------------------------------
(* Cursor: the methods as functions of the value they take *)

\* a cursor that starts counting pages at 0
Cursor_new_zero(url, token) ==
    [url |-> url, token |-> token, page |-> 0, params |-> <<>>,
     results |-> <<>>, total_pages |-> 0, total_results |-> 0]

Cursor_new(url, token) ==
    [url |-> url, token |-> token, page |-> 1, params |-> <<>>,
     results |-> <<>>, total_pages |-> 0, total_results |-> 0]

\* clone() that copies the position but not the page held
Cursor_clone_empty(self) ==
    [self EXCEPT !.results = <<>>, !.total_pages = 0, !.total_results = 0]

\* #[derive(Clone)]: a copy of every field
Cursor_clone(self) == self

\* page() storing a 0-based index
Cursor_page_zero_based(self, page) == [self EXCEPT !.page = page - 1]

\* page() that starts the cursor over: the page held is dropped
Cursor_page_reset(self, page) ==
    [self EXCEPT !.page = page, !.results = <<>>, !.total_pages = 0, !.total_results = 0]

Cursor_page(self, page) == [self EXCEPT !.page = page]

\* param() that keeps one value per key: a key the list already has gets
\* the new value in place
Cursor_param_overwrite(self, key, value) ==
    IF \E i \in DOMAIN self.params : self.params[i][1] = key
    THEN [self EXCEPT !.params =
            [i \in DOMAIN @ |-> IF @[i][1] = key THEN <<key, value>> ELSE @[i]]]
    ELSE [self EXCEPT !.params = Append(@, <<key, value>>)]

Cursor_param(self, key, value) == [self EXCEPT !.params = Append(@, <<key, value>>)]

Cursor_params(self, params) == [self EXCEPT !.params = @ \o params]

\* the request exec() builds
Request(self) ==
    [url |-> self.url,
     query |-> <<<<"api_key", self.token>>, <<"page", to_string(self.page)>>>> \o self.params]

\* get! that sends the request a second time after a transport error
get_retry(out) ==
    IF out.net = "error" THEN [kind |-> "transport", gets |-> 2]
    ELSE IF out.status >= 400 /\ out.status <= 599 THEN [kind |-> "status", gets |-> 1]
    ELSE [kind |-> "ok", gets |-> 1, body |-> out.body]

\* get!: execute the request once and demand a success status
get(out) ==
    IF out.net = "error" THEN [kind |-> "transport", gets |-> 1]
    ELSE IF out.status >= 400 /\ out.status <= 599 THEN [kind |-> "status", gets |-> 1]
    ELSE [kind |-> "ok", gets |-> 1, body |-> out.body]

\* exec(): what the call returns (kind, the decoded envelope), the value of
\* `self` when it returns, the request it built and how many it sent.
\* The two variants before it are exec() with a slip: one appends the page
\* to the results it holds, one stores the results before it has decoded
\* the totals.
Cursor_exec_extend(self, out) ==
    LET req == Request(self)
        resp == get(out)
        err(kind) == [kind |-> kind, self |-> self, env |-> NoEnvelope, req |-> req, gets |-> resp.gets]
    IN  IF resp.kind # "ok" THEN err(resp.kind)
        ELSE LET data == CursorPage(resp.body)
             IN  IF data = DecodeError THEN err("decode")
                 ELSE [kind |-> "ok",
                       self |-> [self EXCEPT !.results = @ \o data.results,
                                             !.total_pages = data.total_pages,
                                             !.total_results = data.total_results],
                       env |-> data, req |-> req, gets |-> resp.gets]

Cursor_exec_early_update(self, out) ==
    LET req == Request(self)
        resp == get(out)
        err(kind, me) == [kind |-> kind, self |-> me, env |-> NoEnvelope, req |-> req, gets |-> resp.gets]
    IN  IF resp.kind # "ok" THEN err(resp.kind, self)
        ELSE LET data == CursorPage(resp.body)
                 early == IF "results" \in DOMAIN resp.body
                          THEN [self EXCEPT !.results = resp.body.results] ELSE self
             IN  IF data = DecodeError THEN err("decode", early)
                 ELSE [kind |-> "ok",
                       self |-> [self EXCEPT !.results = data.results,
                                             !.total_pages = data.total_pages,
                                             !.total_results = data.total_results],
                       env |-> data, req |-> req, gets |-> resp.gets]

\* exec() that takes its position from the response
Cursor_exec_follow(self, out) ==
    LET req == Request(self)
        resp == get(out)
        err(kind) == [kind |-> kind, self |-> self, env |-> NoEnvelope, req |-> req, gets |-> resp.gets]
    IN  IF resp.kind # "ok" THEN err(resp.kind)
        ELSE LET data == CursorPage(resp.body)
             IN  IF data = DecodeError THEN err("decode")
                 ELSE [kind |-> "ok",
                       self |-> [self EXCEPT !.page = data.page,
                                             !.results = data.results,
                                             !.total_pages = data.total_pages,
                                             !.total_results = data.total_results],
                       env |-> data, req |-> req, gets |-> resp.gets]

Cursor_exec(self, out) ==
    LET req == Request(self)
        resp == get(out)
        err(kind) == [kind |-> kind, self |-> self, env |-> NoEnvelope, req |-> req, gets |-> resp.gets]
    IN  IF resp.kind # "ok" THEN err(resp.kind)
        ELSE LET data == CursorPage(resp.body)
             IN  IF data = DecodeError THEN err("decode")
                 ELSE [kind |-> "ok",
                       self |-> [self EXCEPT !.results = data.results,
                                             !.total_pages = data.total_pages,
                                             !.total_results = data.total_results],
                       env |-> data, req |-> req, gets |-> resp.gets]

\* `self.page += 1` on a u64: wraps when compiled without overflow checks
\* (with them the call panics instead, see NextPage)
Increment(page) == (page + 1) % (U64Max + 1)

\* next_page() that fetches the current page and increments afterwards
Cursor_next_page_post_increment(self, out) ==
    LET r == Cursor_exec(self, out) IN [r EXCEPT !.self.page = Increment(@)]

\* next_page() that restores the page when the fetch fails
Cursor_next_page_rollback(self, out) ==
    LET r == Cursor_exec([self EXCEPT !.page = Increment(@)], out)
    IN  IF r.kind = "ok" THEN r ELSE [r EXCEPT !.self.page = self.page]

Cursor_next_page(self, out) == Cursor_exec([self EXCEPT !.page = Increment(@)], out)

----------------------------------------------------------------------------
(* Handlers *)

Movies_new(host, token) == [host |-> host, token |-> token]
Tv_new(host, token) == [host |-> host, token |-> token]

\* Client::new(token): both handlers at the default host
Client_new(token) == [movies |-> Movies_new(Host, token), tv |-> Tv_new(Host, token)]

Movies_reviews(self, id) ==
    Cursor_new(self.host \o "/3/movie/" \o i64_to_string(id) \o "/reviews", self.token)
Movies_recommendations(self, id) ==
    Cursor_new(self.host \o "/3/movie/" \o i64_to_string(id) \o "/recommendations", self.token)
Movies_similar(self, id) ==
    Cursor_new(self.host \o "/3/movie/" \o i64_to_string(id) \o "/similar", self.token)
Movies_popular(self) == Cursor_new(self.host \o "/3/movie/popular", self.token)

Tv_reviews(self, id) ==
    Cursor_new(self.host \o "/3/tv/" \o i64_to_string(id) \o "/reviews", self.token)
Tv_recommendations(self, id) ==
    Cursor_new(self.host \o "/3/tv/" \o i64_to_string(id) \o "/recommendations", self.token)
Tv_similar(self, id) ==
    Cursor_new(self.host \o "/3/tv/" \o i64_to_string(id) \o "/similar", self.token)
Tv_popular(self) == Cursor_new(self.host \o "/3/tv/popular", self.token)

\* the body of details() and credits(): one GET of url with the token,
\* decoded as one object
Fetch(self, url, out, T) ==
    LET req == [url |-> url, query |-> <<<<"api_key", self.token>>>>]
        resp == get(out)
        err(kind) == [kind |-> kind, value |-> NoEnvelope, req |-> req, gets |-> resp.gets]
    IN  IF resp.kind # "ok" THEN err(resp.kind)
        ELSE LET v == json(T, resp.body)
             IN  IF v = DecodeError THEN err("decode")
                 ELSE [kind |-> "ok", value |-> v, req |-> req, gets |-> resp.gets]

Movies_details(self, id, out) ==
    Fetch(self, self.host \o "/3/movie/" \o i64_to_string(id), out, "MovieDetails")
Movies_credits(self, id, out) ==
    Fetch(self, self.host \o "/3/movie/" \o i64_to_string(id) \o "/credits", out, "Credits")
Tv_details(self, id, out) ==
    Fetch(self, self.host \o "/3/tv/" \o i64_to_string(id), out, "ShowDetails")
Tv_credits(self, id, out) ==
    Fetch(self, self.host \o "/3/tv/" \o i64_to_string(id) \o "/credits", out, "Credits")

Movies_search(self, query) ==
    [kind |-> "movie", url |-> self.host \o "/3/search/movie", handler |-> self,
     page |-> 1, query |-> query,
     region |-> None, year |-> None, primary_year |-> None, language |-> None,
     adult |-> FALSE]

Tv_search(self, query) ==
    [kind |-> "show", url |-> self.host \o "/3/search/tv", handler |-> self,
     page |-> 1, query |-> query,
     language |-> None, year |-> None, adult |-> FALSE]

----------------------------------------------------------------------------
(* Search builders *)

\* opt_param! that pushes an unset option as an empty value
opt_param_empty(params, name, opt) ==
    Append(params, <<name, IF opt.some THEN opt.val ELSE "">>)

\* opt_param!: push (name, value) only when the option is set
opt_param(params, name, opt) == IF opt.some THEN Append(params, <<name, opt.val>>) ELSE params

MovieSearch_page(self, page) == [self EXCEPT !.page = page]
MovieSearch_region(self, region) == [self EXCEPT !.region = Some(region)]
\* year() that treats year and primary_year as one filter: setting the one
\* clears the other
MovieSearch_year_exclusive(self, year) ==
    [self EXCEPT !.year = Some(to_string(year)), !.primary_year = None]

MovieSearch_year(self, year) == [self EXCEPT !.year = Some(to_string(year))]
MovieSearch_primary_year(self, year) == [self EXCEPT !.primary_year = Some(to_string(year))]
MovieSearch_language(self, lang) == [self EXCEPT !.language = Some(lang)]
MovieSearch_adult(self) == [self EXCEPT !.adult = TRUE]

\* the params exec() collects
MovieSearch_params(self) ==
    LET p0 == <<<<"query", self.query>>, <<"adult", bool_to_string(self.adult)>>>>
        p1 == opt_param(p0, "region", self.region)
        p2 == opt_param(p1, "year", self.year)
        p3 == opt_param(p2, "primary_year", self.primary_year)
    IN  opt_param(p3, "language", self.language)

\* the cursor exec() builds and hands to next_page()
MovieSearch_cursor(self) ==
    Cursor_params(Cursor_page(Cursor_new(self.url, self.handler.token), self.page),
                  MovieSearch_params(self))

ShowSearch_page(self, page) == [self EXCEPT !.page = page]
ShowSearch_year(self, year) == [self EXCEPT !.year = Some(to_string(year))]
ShowSearch_language(self, lang) == [self EXCEPT !.language = Some(lang)]
ShowSearch_adult(self) == [self EXCEPT !.adult = TRUE]

ShowSearch_params(self) ==
    LET p0 == <<<<"query", self.query>>, <<"include_adult", bool_to_string(self.adult)>>>>
        p1 == opt_param(p0, "language", self.language)
    IN  opt_param(p1, "first_air_date_year", self.year)

ShowSearch_cursor(self) ==
    Cursor_params(Cursor_page(Cursor_new(self.url, self.handler.token), self.page),
                  ShowSearch_params(self))

----------------------------------------------------------------------------
(* State machine *)

\* the record of a completed call: the method, the variable it was called
\* on, its arguments, the request it sent, what it returned (kind, decoded
\* envelope) and the value of `self` when it returned
Call(op, s, arg, req, kind, env, self) ==
    [op |-> op, slot |-> s, arg |-> arg, req |-> req,
     kind |-> kind, env |-> env, self |-> self]

\* a call that does no I/O
Pure(op, s, arg) == Call(op, s, arg, NoRequest, "none", NoEnvelope, NoCursor)

\* let tmdb = Client::new(TOKEN); no cursor, no search, nothing sent yet;
\* Movies::new and Tv::new have each built their reqwest client
Init ==
    /\ tmdb = Client_new(Token)
    /\ cursors = [s \in Slots |-> NoCursor]
    /\ search = NoSearch
    /\ sent = 0
    /\ last = Pure("none", 0, <<>>)
    /\ advances = [s \in Slots |-> Broken]
    /\ overflowChecks \in BOOLEAN
    /\ clients = 2

\* let c = <handler method>(..): binds variable s to the cursor c, for
\* which Cursor::new has built a reqwest client
Construct(op, s, arg, c) ==
    /\ clients < MaxClients
    /\ clients' = clients + 1
    /\ cursors' = [cursors EXCEPT ![s] = c]
    /\ advances' = [advances EXCEPT ![s] = 0]
    /\ last' = Pure(op, s, arg)
    /\ UNCHANGED <<tmdb, search, sent, overflowChecks>>

\* let c = tmdb.movies.reviews(id); and the other cursor-producing methods
MoviesReviews(s, id) == Construct("movies.reviews", s, <<id>>, Movies_reviews(tmdb.movies, id))
MoviesRecommendations(s, id) ==
    Construct("movies.recommendations", s, <<id>>, Movies_recommendations(tmdb.movies, id))
MoviesSimilar(s, id) == Construct("movies.similar", s, <<id>>, Movies_similar(tmdb.movies, id))
MoviesPopular(s) == Construct("movies.popular", s, <<>>, Movies_popular(tmdb.movies))
TvReviews(s, id) == Construct("tv.reviews", s, <<id>>, Tv_reviews(tmdb.tv, id))
TvRecommendations(s, id) == Construct("tv.recommendations", s, <<id>>, Tv_recommendations(tmdb.tv, id))
TvSimilar(s, id) == Construct("tv.similar", s, <<id>>, Tv_similar(tmdb.tv, id))
TvPopular(s) == Construct("tv.popular", s, <<>>, Tv_popular(tmdb.tv))

Constructors ==
    {"movies.reviews", "movies.recommendations", "movies.similar", "movies.popular",
     "tv.reviews", "tv.recommendations", "tv.similar", "tv.popular"}

\* let c = c.page(n);
Page(s, n) ==
    /\ cursors[s] # NoCursor
    /\ cursors' = [cursors EXCEPT ![s] = Cursor_page(@, n)]
    /\ advances' = [advances EXCEPT ![s] = Broken]
    /\ last' = Pure("page", s, <<n>>)
    /\ UNCHANGED <<tmdb, search, sent, overflowChecks, clients>>

\* let c = c.param(k, v);
Param(s, kv) ==
    /\ cursors[s] # NoCursor
    /\ Len(cursors[s].params) < MaxParams
    /\ cursors' = [cursors EXCEPT ![s] = Cursor_param(@, kv[1], kv[2])]
    /\ advances' = [advances EXCEPT ![s] = Broken]
    /\ last' = Pure("param", s, kv)
    /\ UNCHANGED <<tmdb, search, sent, overflowChecks, clients>>

\* let c = c.params(ps);
Params(s, ps) ==
    /\ cursors[s] # NoCursor
    /\ Len(cursors[s].params) + Len(ps) <= MaxParams
    /\ cursors' = [cursors EXCEPT ![s] = Cursor_params(@, ps)]
    /\ advances' = [advances EXCEPT ![s] = Broken]
    /\ last' = Pure("params", s, ps)
    /\ UNCHANGED <<tmdb, search, sent, overflowChecks, clients>>

\* let d = c.clone(); c is borrowed and stays bound, d is bound to the copy
\* (the copy shares c's reqwest client: none is built)
Clone(s, t) ==
    /\ cursors[s] # NoCursor
    /\ cursors' = [cursors EXCEPT ![t] = Cursor_clone(cursors[s])]
    /\ advances' = [advances EXCEPT ![t] = Broken]
    /\ last' = Pure("clone", t, <<s>>)
    /\ UNCHANGED <<tmdb, search, sent, overflowChecks, clients>>

\* the caller's side of a fetch that returned r: Ok(cursor) rebinds the
\* variable, Err(e) leaves it moved out (the cursor was dropped in the call)
Returned(op, s, r) ==
    /\ cursors' = [cursors EXCEPT ![s] = IF r.kind = "ok" THEN r.self ELSE NoCursor]
    /\ sent' = sent + r.gets
    /\ last' = Call(op, s, <<>>, r.req, r.kind, r.env, r.self)

\* let c = c.exec().await?;
Exec(s, out) ==
    /\ cursors[s] # NoCursor
    /\ sent < MaxSent
    /\ Returned("exec", s, Cursor_exec(cursors[s], out))
    /\ advances' = [advances EXCEPT ![s] = Broken]
    /\ UNCHANGED <<tmdb, search, overflowChecks, clients>>

\* next_page() on the cursor value c, the result bound to variable s.
\* `self.page += 1` at u64::MAX panics (attempt to add with overflow) before
\* any request when overflow checks are compiled in, and wraps otherwise.
Advance(op, s, c, out, streak) ==
    IF c.page = U64Max /\ overflowChecks
    THEN /\ cursors' = [cursors EXCEPT ![s] = NoCursor]
         /\ last' = Call(op, s, <<>>, NoRequest, "panic", NoEnvelope, c)
         /\ advances' = [advances EXCEPT ![s] = Broken]
         /\ UNCHANGED sent
    ELSE LET r == Cursor_next_page(c, out)
         IN  /\ Returned(op, s, r)
             /\ advances' = [advances EXCEPT ![s] =
                               IF r.kind = "ok" /\ streak # Broken THEN streak + 1 ELSE Broken]

\* let c = c.next_page().await?;
NextPage(s, out) ==
    /\ cursors[s] # NoCursor
    /\ sent < MaxSent
    /\ Advance("next_page", s, cursors[s], out, advances[s])
    /\ UNCHANGED <<tmdb, search, overflowChecks, clients>>

\* let v = <details or credits>(id).await; the handler is borrowed, no
\* cursor is involved
Fetched(op, id, r) ==
    /\ sent < MaxSent
    /\ sent' = sent + r.gets
    /\ last' = Call(op, 0, <<id>>, r.req, r.kind, r.value, NoCursor)
    /\ UNCHANGED <<tmdb, cursors, search, advances, overflowChecks, clients>>

MoviesDetails(id, out) == Fetched("movies.details", id, Movies_details(tmdb.movies, id, out))
MoviesCredits(id, out) == Fetched("movies.credits", id, Movies_credits(tmdb.movies, id, out))
TvDetails(id, out) == Fetched("tv.details", id, Tv_details(tmdb.tv, id, out))
TvCredits(id, out) == Fetched("tv.credits", id, Tv_credits(tmdb.tv, id, out))

\* one cursor, from popular(), driven through every method of Cursor
Next ==
    \/ MoviesPopular(1)
    \/ TvPopular(1)
    \/ \E n \in PageArgs : Page(1, n)
    \/ \E kv \in ParamPairs : Param(1, kv)
    \/ \E ps \in ParamLists : Params(1, ps)
    \/ \E out \in Outcomes : Exec(1, out)
    \/ \E out \in Outcomes : NextPage(1, out)

Spec == Init /\ [][Next]_vars

\* every handler method: single objects fetched, and one cursor from any
\* of the cursor-producing methods, repositioned and fetched
NextHandlers ==
    \/ \E id \in Ids, out \in ObjectOutcomes : MoviesDetails(id, out)
    \/ \E id \in Ids, out \in ObjectOutcomes : MoviesCredits(id, out)
    \/ \E id \in Ids, out \in ObjectOutcomes : TvDetails(id, out)
    \/ \E id \in Ids, out \in ObjectOutcomes : TvCredits(id, out)
    \/ \E id \in Ids : MoviesReviews(1, id)
    \/ \E id \in Ids : MoviesRecommendations(1, id)
    \/ \E id \in Ids : MoviesSimilar(1, id)
    \/ MoviesPopular(1)
    \/ \E id \in Ids : TvReviews(1, id)
    \/ \E id \in Ids : TvRecommendations(1, id)
    \/ \E id \in Ids : TvSimilar(1, id)
    \/ TvPopular(1)
    \/ \E n \in PageArgs : Page(1, n)
    \/ \E out \in Outcomes : Exec(1, out)
    \/ \E out \in Outcomes : NextPage(1, out)

SpecHandlers == Init /\ [][NextHandlers]_vars

----------------------------------------------------------------------------
(* Searches: the builder is bound to `search`, the cursor exec() returns    *)
(* to cursor variable 1                                                    *)

Setter(op, arg, builder) ==
    /\ search' = builder
    /\ last' = Pure(op, 0, arg)
    /\ UNCHANGED <<tmdb, cursors, sent, advances, overflowChecks, clients>>

\* let search = tmdb.movies.search(q);
MoviesSearch(q) == Setter("movies.search", <<q>>, Movies_search(tmdb.movies, q))

IsMovieSearch == search # NoSearch /\ search.kind = "movie"

MovieSearchPage(n) == IsMovieSearch /\ Setter("search.page", <<n>>, MovieSearch_page(search, n))
MovieSearchRegion(r) == IsMovieSearch /\ Setter("search.region", <<r>>, MovieSearch_region(search, r))
MovieSearchYear(y) == IsMovieSearch /\ Setter("search.year", <<y>>, MovieSearch_year(search, y))
MovieSearchPrimaryYear(y) ==
    IsMovieSearch /\ Setter("search.primary_year", <<y>>, MovieSearch_primary_year(search, y))
MovieSearchLanguage(l) ==
    IsMovieSearch /\ Setter("search.language", <<l>>, MovieSearch_language(search, l))
MovieSearchAdult == IsMovieSearch /\ Setter("search.adult", <<>>, MovieSearch_adult(search))

\* let c = search.exec().await?; (Cursor::new in exec() builds a client)
MovieSearchExec(out) ==
    /\ IsMovieSearch
    /\ sent < MaxSent
    /\ clients < MaxClients
    /\ clients' = clients + 1
    /\ Advance("search.exec", 1, MovieSearch_cursor(search), out, Broken)
    /\ search' = NoSearch
    /\ UNCHANGED <<tmdb, overflowChecks>>

\* let search = tmdb.tv.search(q);
TvSearch(q) == Setter("tv.search", <<q>>, Tv_search(tmdb.tv, q))

IsShowSearch == search # NoSearch /\ search.kind = "show"

ShowSearchPage(n) == IsShowSearch /\ Setter("search.page", <<n>>, ShowSearch_page(search, n))
ShowSearchYear(y) == IsShowSearch /\ Setter("search.year", <<y>>, ShowSearch_year(search, y))
ShowSearchLanguage(l) ==
    IsShowSearch /\ Setter("search.language", <<l>>, ShowSearch_language(search, l))
ShowSearchAdult == IsShowSearch /\ Setter("search.adult", <<>>, ShowSearch_adult(search))

ShowSearchExec(out) ==
    /\ IsShowSearch
    /\ sent < MaxSent
    /\ clients < MaxClients
    /\ clients' = clients + 1
    /\ Advance("search.exec", 1, ShowSearch_cursor(search), out, Broken)
    /\ search' = NoSearch
    /\ UNCHANGED <<tmdb, overflowChecks>>

\* one search per behaviour: from search(q) through the setters to exec()
NextSearch ==
    \/ \E q \in Queries : sent = 0 /\ MoviesSearch(q)
    \/ \E n \in PageArgs : sent = 0 /\ MovieSearchPage(n)
    \/ \E r \in Regions : sent = 0 /\ MovieSearchRegion(r)
    \/ \E y \in Years : sent = 0 /\ MovieSearchYear(y)
    \/ \E y \in Years : sent = 0 /\ MovieSearchPrimaryYear(y)
    \/ \E l \in Languages : sent = 0 /\ MovieSearchLanguage(l)
    \/ sent = 0 /\ MovieSearchAdult
    \/ \E out \in Outcomes : sent = 0 /\ MovieSearchExec(out)
    \/ \E q \in Queries : sent = 0 /\ TvSearch(q)
    \/ \E n \in PageArgs : sent = 0 /\ ShowSearchPage(n)
    \/ \E y \in Years : sent = 0 /\ ShowSearchYear(y)
    \/ \E l \in Languages : sent = 0 /\ ShowSearchLanguage(l)
    \/ sent = 0 /\ ShowSearchAdult
    \/ \E out \in Outcomes : sent = 0 /\ ShowSearchExec(out)

SpecSearch == Init /\ [][NextSearch]_vars

\* every call that does no I/O, around one search and one exec(): a search
\* is built (and executed) while no cursor is held, cursors are constructed
\* while no search is being built, and are then set up and fetched once
NextFrame ==
    \/ \E id \in Ids : search = NoSearch /\ MoviesReviews(1, id)
    \/ \E id \in Ids : search = NoSearch /\ MoviesRecommendations(1, id)
    \/ \E id \in Ids : search = NoSearch /\ MoviesSimilar(1, id)
    \/ search = NoSearch /\ MoviesPopular(1)
    \/ \E id \in Ids : search = NoSearch /\ TvReviews(1, id)
    \/ \E id \in Ids : search = NoSearch /\ TvRecommendations(1, id)
    \/ \E id \in Ids : search = NoSearch /\ TvSimilar(1, id)
    \/ search = NoSearch /\ TvPopular(1)
    \/ \E n \in PageArgs : Page(1, n)
    \/ \E kv \in ParamPairs : Param(1, kv)
    \/ \E ps \in ParamLists : Params(1, ps)
    \/ \E out \in Outcomes : sent = 0 /\ Exec(1, out)
    \/ cursors[1] = NoCursor /\ NextSearch

SpecFrame == Init /\ [][NextFrame]_vars

\* two cursor variables, bound by popular() or by clone() of one another,
\* their calls interleaved in every order
NextPair ==
    \/ \E s \in Slots : MoviesPopular(s)
    \/ \E s \in Slots, t \in Slots : s # t /\ Clone(s, t)
    \/ \E s \in Slots, n \in PairPageArgs : Page(s, n)
    \/ \E s \in Slots, kv \in PairParamPairs : Param(s, kv)
    \/ \E s \in Slots, out \in PairOutcomes : Exec(s, out)
    \/ \E s \in Slots, out \in PairOutcomes : NextPage(s, out)

SpecPair == Init /\ [][NextPair]_vars

----------------------------------------------------------------------------
(* Properties *)

\* the step is a call of op (every call leaves its record in last)
Called(op) == last'.op = op

\* the page a request carries
PageOf(req) == req.query[2]

Fields(c) == <<c.results, c.total_pages, c.total_results>>

\* C1: a successful exec() returns the cursor it was called on with results,
\* total_pages and total_results replaced by those of the decoded envelope
\* (same items, same order) and nothing else changed.
C1_ExecReplaces ==
    [][\A s \in Slots :
        (Called("exec") /\ last'.slot = s /\ last'.kind = "ok") =>
            /\ last'.env \in {CursorPage(b) : b \in Bodies} \ {DecodeError}
            /\ cursors'[s] = [cursors[s] EXCEPT !.results = last'.env.results,
                                                !.total_pages = last'.env.total_pages,
                                                !.total_results = last'.env.total_results]]_vars

\* an exec() on a cursor that held one page has returned it holding another
C1_Witness ==
    /\ last.op = "exec" /\ last.kind = "ok" /\ sent >= 2
    /\ cursors[1].results = <<"m3">> /\ cursors[1].total_pages = 7
    /\ cursors[1].total_results = 9

\* C2: an exec() that fails (transport, status or decode) returns an error
\* and no cursor, and the cursor value it held has results, total_pages and
\* total_results as they were before the call; every cursor there is holds
\* either the initial three fields or those of one decoded envelope.
Coherent(c) ==
    \/ Fields(c) = <<<<>>, 0, 0>>
    \/ \E b \in Bodies : CursorPage(b) # DecodeError /\ Fields(c) = Fields(CursorPage(b))

C2_FailedExecKeepsFields ==
    [][\A s \in Slots :
        /\ (Called("exec") /\ last'.slot = s /\ last'.kind # "ok") =>
              /\ last'.kind \in Failures
              /\ cursors'[s] = NoCursor
              /\ last'.self = cursors[s]
        /\ cursors'[s] # NoCursor => Coherent(cursors'[s])
        /\ last'.self # NoCursor => Coherent(last'.self)]_vars

\* an exec() on a cursor holding a page failed on a body that has results
\* but does not decode
C2_Witness ==
    /\ last.op = "exec" /\ last.kind = "decode"
    /\ last.self.results = <<"m3">> /\ cursors[1] = NoCursor

\* C3: every exec() call hands exactly one request to the client, whatever
\* the outcome, for the cursor's url, with api_key = token, page = the page
\* at the call, then the params in insertion order; the cursor value keeps
\* its page and params.
C3_ExecOneGet ==
    [][\A s \in Slots :
        (Called("exec") /\ last'.slot = s) =>
            /\ sent' = sent + 1
            /\ last'.req.url = cursors[s].url
            /\ Len(last'.req.query) = 2 + Len(cursors[s].params)
            /\ last'.req.query[1] = <<"api_key", cursors[s].token>>
            /\ last'.req.query[2] = <<"page", to_string(cursors[s].page)>>
            /\ SubSeq(last'.req.query, 3, Len(last'.req.query)) = cursors[s].params
            /\ last'.self.page = cursors[s].page
            /\ last'.self.params = cursors[s].params]_vars

\* an exec() with two params failed on the transport after sending once
C3_Witness ==
    /\ last.op = "exec" /\ last.kind = "transport" /\ sent = 1
    /\ last.req.query = <<<<"api_key", Token>>, <<"page", "2">>,
                      <<"page", "9">>, <<"api_key", "other">>>>

\* C4: next_page() on a freshly constructed cursor (page 1, never fetched)
\* sends its request with page=2.
C4_FreshNextPageRequestsTwo ==
    [][\A s \in Slots :
        (Called("next_page") /\ last'.slot = s /\ advances[s] = 0
            /\ cursors[s] = Cursor_new(cursors[s].url, cursors[s].token)) =>
            /\ sent' = sent + 1
            /\ PageOf(last'.req) = <<"page", "2">>
            /\ last'.self.page = 2]_vars

\* the first request of a behaviour came from next_page() on a fresh cursor
C4_Witness ==
    /\ last.op = "next_page" /\ last.kind = "ok" /\ sent = 1 /\ advances[1] = 1

\* the cursor in variable s is the one popular() returned after n
\* successful next_page() calls and nothing else, the last of them just made
PopularAdvanced(s, n) ==
    /\ advances[s] = n /\ last.op = "next_page" /\ last.slot = s
    /\ cursors[s].url \in {Movies_popular(tmdb.movies).url, Tv_popular(tmdb.tv).url}

\* C5 as stated: after popular() and two successful next_page() calls the
\* second request carried page=2 and the cursor's page is 2.
C5_SecondRequestPageTwo ==
    \A s \in Slots :
        PopularAdvanced(s, 2) => PageOf(last.req) = <<"page", "2">> /\ cursors[s].page = 2

\* C5 amended: after popular() and two successful next_page() calls the
\* first request carried page=2, the second carried page=3 and the cursor's
\* page is 3.
C5_SecondRequestPageThree ==
    \A s \in Slots :
        /\ PopularAdvanced(s, 1) => PageOf(last.req) = <<"page", "2">> /\ cursors[s].page = 2
        /\ PopularAdvanced(s, 2) => PageOf(last.req) = <<"page", "3">> /\ cursors[s].page = 3

\* popular() followed by exactly two successful next_page() calls
C5_Witness == PopularAdvanced(1, 2) /\ sent = 2 /\ last.kind = "ok"

\* the pairs a request carries
Pairs(req) == {req.query[i] : i \in 1..Len(req.query)}

\* C6 as stated: search(q).year(y).exec() with no page set sends one request
\* carrying query=q, year=y, adult=false, page=1 and api_key=token, and on
\* success returns a cursor whose results are those of the response.
C6_SearchYearRequestsPageOne ==
    [][\A q \in Queries, y \in Years :
        (Called("search.exec") /\ last'.kind # "panic"
            /\ search = MovieSearch_year(Movies_search(tmdb.movies, q), y)) =>
            /\ sent' = sent + 1
            /\ { <<"query", q>>, <<"year", to_string(y)>>, <<"adult", "false">>,
                 <<"page", "1">>, <<"api_key", Token>> } \subseteq Pairs(last'.req)
            /\ last'.kind = "ok" => cursors'[1].results = last'.env.results]_vars

\* C7 as stated: exec() of a search builder whose page is n sends its
\* request with page=n and returns a cursor whose page is n.
C7_SearchQueriesSelectedPage ==
    [][(Called("search.exec") /\ last'.kind # "panic") =>
            /\ PageOf(last'.req) = <<"page", to_string(search.page)>>
            /\ last'.kind = "ok" => cursors'[1].page = search.page]_vars

C9_PageAtLeastOne ==
    \A s \in Slots : cursors[s] # NoCursor => cursors[s].page >= 1

\* C10: a cursor has page 1 right after any handler method constructed it
\* and page n right after page(n) with n >= 1.
C10_PageAfterNewAndPage ==
    [][\A s \in Slots :
        /\ (last'.op \in Constructors /\ last'.slot = s) => cursors'[s].page = 1
        /\ (Called("page") /\ last'.slot = s /\ last'.arg[1] >= 1) =>
              cursors'[s].page = last'.arg[1] /\ cursors'[s].page >= 1]_vars

\* page(u64::MAX) was called on a cursor that had fetched a page
C10_Witness ==
    /\ last.op = "page" /\ last.arg = <<U64Max>> /\ cursors[1].page = U64Max
    /\ cursors[1].results # <<>>

\* C11: param and params only ever add to the end of the cursor's params:
\* a cursor is constructed with none, param(k, v) appends (k, v), params(ps)
\* appends ps in order, no other method changes the list, and a fetch sends
\* after api_key and page every pair of the list in order, a pair whose key
\* is already there (the caller's own, `page` or `api_key`) included.
C11_ParamsAdditive ==
    [][\A s \in Slots :
        /\ (last'.op \in Constructors /\ last'.slot = s) => cursors'[s].params = <<>>
        /\ (Called("param") /\ last'.slot = s) =>
              cursors'[s].params = cursors[s].params \o <<last'.arg>>
        /\ (Called("params") /\ last'.slot = s) =>
              cursors'[s].params = cursors[s].params \o last'.arg
        /\ (Called("page") /\ last'.slot = s) => cursors'[s].params = cursors[s].params
        /\ (last'.op \in {"exec", "next_page"} /\ last'.slot = s /\ last'.kind # "panic") =>
              /\ SubSeq(last'.req.query, 3, Len(last'.req.query)) = cursors[s].params
              /\ last'.req.query[1][1] = "api_key" /\ last'.req.query[2][1] = "page"
              /\ last'.self.params = cursors[s].params]_vars

\* a fetch sent the caller's page and the caller's api_key after the
\* cursor's own api_key and page
C11_Witness ==
    /\ last.op \in {"exec", "next_page"} /\ last.kind = "ok"
    /\ last.req.query = <<<<"api_key", Token>>, <<"page", "1">>,
                          <<"page", "9">>, <<"api_key", "other">>>>
    /\ cursors[1].params = <<<<"page", "9">>, <<"api_key", "other">>>>

\* the setter calls a caller can make on a search builder, as <<method, arguments>>
MovieSetters ==
    {<<"search.page", <<n>>>> : n \in PageArgs} \cup {<<"search.region", <<r>>>> : r \in Regions}
        \cup {<<"search.year", <<y>>>> : y \in Years}
        \cup {<<"search.primary_year", <<y>>>> : y \in Years}
        \cup {<<"search.language", <<l>>>> : l \in Languages} \cup {<<"search.adult", <<>>>>}
ShowSetters ==
    {<<"search.page", <<n>>>> : n \in PageArgs} \cup {<<"search.year", <<y>>>> : y \in Years}
        \cup {<<"search.language", <<l>>>> : l \in Languages} \cup {<<"search.adult", <<>>>>}

\* the builder a setter call returns
MovieSearch_set(self, op, arg) ==
    CASE op = "search.page" -> MovieSearch_page(self, arg[1])
      [] op = "search.region" -> MovieSearch_region(self, arg[1])
      [] op = "search.year" -> MovieSearch_year(self, arg[1])
      [] op = "search.primary_year" -> MovieSearch_primary_year(self, arg[1])
      [] op = "search.language" -> MovieSearch_language(self, arg[1])
      [] op = "search.adult" -> MovieSearch_adult(self)
ShowSearch_set(self, op, arg) ==
    CASE op = "search.page" -> ShowSearch_page(self, arg[1])
      [] op = "search.year" -> ShowSearch_year(self, arg[1])
      [] op = "search.language" -> ShowSearch_language(self, arg[1])
      [] op = "search.adult" -> ShowSearch_adult(self)

\* the builder a setter call returns and the request exec() then sends
Search_set(self, op, arg) ==
    IF self.kind = "movie" THEN MovieSearch_set(self, op, arg) ELSE ShowSearch_set(self, op, arg)
Search_cursor(self) ==
    IF self.kind = "movie" THEN MovieSearch_cursor(self) ELSE ShowSearch_cursor(self)
Search_request(self) == Request([Search_cursor(self) EXCEPT !.page = Increment(@)])

\* C12: search builder setters of two different filters commute: whenever a
\* setter g is called on a builder b, then for every call f of a setter of
\* another filter, f applied to the builder returned equals g applied to
\* f(b): the same builder, hence the same cursor handed to next_page() and
\* the same request (keys, values and order) at exec().
C12_SettersCommute ==
    [][(search # NoSearch /\ search' # NoSearch /\ last'.op \notin {"movies.search", "tv.search"}) =>
        \A f \in (IF search.kind = "movie" THEN MovieSetters ELSE ShowSetters) :
            f[1] # last'.op =>
                LET gf == Search_set(search', f[1], f[2])
                    fg == Search_set(Search_set(search, f[1], f[2]), last'.op, last'.arg)
                IN  /\ gf = fg
                    /\ Search_cursor(gf) = Search_cursor(fg)
                    /\ Search_request(gf).query = Search_request(fg).query]_vars

\* year() was called on a movie search that had its page, region and
\* language set and adult included
C12_Witness ==
    /\ IsMovieSearch /\ last.op = "search.year" /\ search.year = Some("2016")
    /\ search.page = 2 /\ search.region.some /\ search.language.some /\ search.adult
    /\ ~search.primary_year.some

\* the optional filters of a builder, as <<query key, field>>
OptionalFilters(self) ==
    IF self.kind = "movie"
    THEN {<<"region", "region">>, <<"year", "year">>, <<"primary_year", "primary_year">>,
          <<"language", "language">>}
    ELSE {<<"language", "language">>, <<"first_air_date_year", "year">>}

\* the field a setter call sets, and the string it stores
FilterSet(op) ==
    CASE op = "search.region" -> "region" [] op = "search.year" -> "year"
      [] op = "search.primary_year" -> "primary_year" [] op = "search.language" -> "language"
      [] OTHER -> "none"
FilterValue(op, arg) ==
    IF op \in {"search.year", "search.primary_year"} THEN to_string(arg[1]) ELSE arg[1]

\* C13: the request a search builder's exec() sends always carries the query
\* and the adult flag (adult for movies, include_adult for shows), and
\* carries the key of an optional filter, with the value set, if and only
\* if the filter's setter was called: search() starts with every filter
\* unset, a setter call sets its filter and no other, and exec() sends the
\* key of exactly the filters that are set; no pair has an empty value.
C13_SearchRequestFilters ==
    [][/\ last'.op \in {"movies.search", "tv.search"} =>
              \A kf \in OptionalFilters(search') : search'[kf[2]] = None
       /\ (search # NoSearch /\ search' # NoSearch
                /\ last'.op \notin {"movies.search", "tv.search"}) =>
              \A kf \in OptionalFilters(search) :
                  search'[kf[2]] = IF kf[2] = FilterSet(last'.op)
                                   THEN Some(FilterValue(last'.op, last'.arg))
                                   ELSE search[kf[2]]
       /\ (Called("search.exec") /\ last'.kind # "panic") =>
              LET q == last'.req.query
                  adult == IF search.kind = "movie" THEN "adult" ELSE "include_adult"
              IN  /\ sent' = sent + 1
                  /\ <<"query", search.query>> \in Pairs(last'.req)
                  /\ <<adult, bool_to_string(search.adult)>> \in Pairs(last'.req)
                  /\ \A kf \in OptionalFilters(search) :
                        /\ (\E i \in DOMAIN q : q[i][1] = kf[1]) <=> search[kf[2]].some
                        /\ search[kf[2]].some => <<kf[1], search[kf[2]].val>> \in Pairs(last'.req)
                  /\ \A i \in DOMAIN q : q[i][2] # ""]_vars

\* a show search with only its year set sent first_air_date_year and no
\* language
C13_Witness ==
    /\ last.op = "search.exec" /\ last.kind = "ok" /\ sent = 1
    /\ <<"first_air_date_year", "2016">> \in Pairs(last.req)
    /\ <<"include_adult", "false">> \in Pairs(last.req)
    /\ \A i \in DOMAIN last.req.query : last.req.query[i][1] # "language"

\* C14 as stated: the number of reqwest clients built is one, whatever the
\* handler calls, cursor constructions and fetches made.
C14_OneClientBuilt == clients = 1

\* a response whose status is outside the success range 200..299
NonSuccess(out) == out.net = "response" /\ (out.status < 200 \/ out.status > 299)

\* C15 as stated: details(), credits(), exec() and next_page() return an
\* error whenever the response has a status outside the success range.
C15_NonSuccessIsError ==
    [][\A id \in Ids, out \in ObjectOutcomes \cup Outcomes :
        (/\ NonSuccess(out)
         /\ \/ MoviesDetails(id, out) \/ MoviesCredits(id, out)
            \/ TvDetails(id, out) \/ TvCredits(id, out)
            \/ Exec(1, out) \/ NextPage(1, out))
        => last'.kind # "ok"]_vars

\* the calls that only set something up
SetupOps ==
    Constructors \cup {"page", "param", "params", "movies.search", "tv.search"}
        \cup {f[1] : f \in MovieSetters \cup ShowSetters}

\* C16: only fetches do I/O: no cursor setter, search-builder setter,
\* search() or cursor-producing handler method sends a request, while
\* exec() of a cursor or of a search (unless it panics) does; a
\* cursor-producing method returns a cursor with page 1, no params, no
\* results and zero totals; page() changes the page only and param() and
\* params() the params only.
C16_OnlyFetchesDoIO ==
    [][\A s \in Slots :
        /\ last'.op \in SetupOps => sent' = sent /\ last'.req = NoRequest
        /\ (last'.op \in {"exec", "search.exec"} /\ last'.kind # "panic") =>
              sent' = sent + 1 /\ last'.req # NoRequest
        /\ (last'.op \in Constructors /\ last'.slot = s) =>
              /\ cursors'[s].page = 1 /\ cursors'[s].params = <<>>
              /\ cursors'[s].results = <<>>
              /\ cursors'[s].total_pages = 0 /\ cursors'[s].total_results = 0
        /\ (Called("page") /\ last'.slot = s) =>
              cursors'[s] = [cursors[s] EXCEPT !.page = cursors'[s].page]
        /\ (last'.op \in {"param", "params"} /\ last'.slot = s) =>
              cursors'[s] = [cursors[s] EXCEPT !.params = cursors'[s].params]]_vars

\* page() moved a cursor that holds a fetched page, and no second request
\* was sent
C16_Witness ==
    /\ last.op = "page" /\ cursors[1].page = 2 /\ sent = 1
    /\ cursors[1].results = <<"m3">> /\ cursors[1].total_pages = 7
    /\ cursors[1].params # <<>>

\* the calls that send a request
FetchOps ==
    {"exec", "next_page", "search.exec",
     "movies.details", "movies.credits", "tv.details", "tv.credits"}

\* C17 as stated: every call that does I/O ends in the decoded value or
\* updated cursor, or in a transport, status or decode failure returned to
\* the caller, and in nothing else.
C17_ValueOrOneOfThreeFailures ==
    last.op \in FetchOps => last.kind \in {"ok"} \cup Failures

\* C19 as stated, one call at a time: every successful next_page() on a
\* cursor at page p, for every p of the u64 range, requests page p+1 and
\* leaves the cursor at page p+1, so that k calls in a row request
\* p+1, .., p+k and the page never decreases.
C19_NextPageAddsOne ==
    [][\A s \in Slots :
        (Called("next_page") /\ last'.slot = s /\ last'.kind = "ok") =>
            /\ sent' = sent + 1
            /\ PageOf(last'.req) = <<"page", to_string(cursors[s].page + 1)>>
            /\ cursors'[s].page = cursors[s].page + 1
            /\ cursors'[s].page >= cursors[s].page]_vars

\* what the caller's variable holds after a fetch that returned r
Bound(r) == IF r.kind = "ok" THEN r.self ELSE NoCursor

C20_PageIsRequestedPage ==
    [][\A s \in Slots :
        (last'.op \in {"exec", "next_page"} /\ last'.slot = s /\ last'.kind = "ok") =>
            /\ PageOf(last'.req) = <<"page", to_string(cursors'[s].page)>>
            /\ Called("exec") => cursors'[s].page = cursors[s].page
            /\ "page" \in DOMAIN last'.env
            /\ cursors'[s].results = last'.env.results]_vars

\* a request for page 2 was answered by an envelope reporting page 5: the
\* cursor is at page 2 and holds the envelope's results
C20_Witness ==
    /\ last.op \in {"exec", "next_page"} /\ last.kind = "ok"
    /\ PageOf(last.req) = <<"page", "2">> /\ last.env.page = 5
    /\ cursors[1].page = 2 /\ cursors[1].results = <<"m3">>

\* the cursor has fetched a page and stands at or past the last page that
\* fetch reported
AtOrPastEnd(c) == c # NoCursor /\ c.total_pages > 0 /\ c.page >= c.total_pages

\* C21 as stated: next_page() on a cursor whose page is already >= the
\* total_pages of its last successful fetch never refuses: it increments
\* the page and sends a request for the incremented page.
C21_NextPageIgnoresTotalPages ==
    [][\A s \in Slots :
        (Called("next_page") /\ last'.slot = s /\ AtOrPastEnd(cursors[s])) =>
            /\ sent' = sent + 1
            /\ last'.req # NoRequest
            /\ last'.self.page = cursors[s].page + 1
            /\ PageOf(last'.req) = <<"page", to_string(cursors[s].page + 1)>>]_vars

====
